---- MODULE Spec2Model ----
(***************************************************************************)
(* Model of src/utils/parse_date_str.rs: the partial-precision date-string *)
(* parser parse_date_str and its three resolution strategies.              *)
(*                                                                         *)
(* Text is modelled as a sequence of one-character strings, so that        *)
(* splitting, integer parsing and formatting are computed and not assumed. *)
(***************************************************************************)
EXTENDS Integers, Sequences, FiniteSets, TLC

VARIABLES date_str, round, pc, date_parts, result, calls

vars == <<date_str, round, pc, date_parts, result, calls>>

(***************************************************************************)
(* Bounds of the input space.                                              *)
(***************************************************************************)
MaxDay == 32
MaxMonth == 13
MaxParts == 5

(***************************************************************************)
(* Machine and calendar limits.  The years are those of chrono's           *)
(* NaiveDate::MIN (1 January -262143) and NaiveDate::MAX (31 December      *)
(* 262142).                                                                *)
(***************************************************************************)
I32_MAX == 2147483647
MAX_YEAR == 262142
MIN_YEAR == -262143

U32_MAX_DIGITS == <<"4", "2", "9", "4", "9", "6", "7", "2", "9", "5">>
I32_MAX_DIGITS == <<"2", "1", "4", "7", "4", "8", "3", "6", "4", "7">>
I32_MIN_DIGITS == <<"2", "1", "4", "7", "4", "8", "3", "6", "4", "8">>

DateRound == {"Ceil", "Floor"}

(***************************************************************************)
(* Text helpers.                                                           *)
(***************************************************************************)
DigitChars == <<"0", "1", "2", "3", "4", "5", "6", "7", "8", "9">>

Digits == {DigitChars[i] : i \in 1..10}

DigitVal(c) == (CHOOSE i \in 1..10 : DigitChars[i] = c) - 1

RECURSIVE FormatNat(_)
FormatNat(n) ==
    IF n < 10 THEN <<DigitChars[n + 1]>>
    ELSE FormatNat(n \div 10) \o <<DigitChars[(n % 10) + 1]>>

\* Display of a machine integer: canonical decimal, '-' for negatives.
Format(n) == IF n < 0 THEN <<"-">> \o FormatNat(0 - n) ELSE FormatNat(n)

RECURSIVE Join(_)
Join(parts) ==
    IF Len(parts) = 0 THEN <<>>
    ELSE IF Len(parts) = 1 THEN parts[1]
    ELSE parts[1] \o <<"/">> \o Join(Tail(parts))

\* str::split('/'): always at least one token; the empty string is one
\* empty token.
RECURSIVE Split(_)
Split(s) ==
    IF \A i \in 1..Len(s) : s[i] # "/" THEN <<s>>
    ELSE LET i == CHOOSE k \in 1..Len(s) :
                      s[k] = "/" /\ \A j \in 1..(k - 1) : s[j] # "/"
         IN  <<SubSeq(s, 1, i - 1)>> \o Split(SubSeq(s, i + 1, Len(s)))

(***************************************************************************)
(* Integer parsing (FromStr for u32 and i32).                              *)
(***************************************************************************)
RECURSIVE StripZeros(_)
StripZeros(ds) ==
    IF Len(ds) > 1 /\ ds[1] = "0" THEN StripZeros(Tail(ds)) ELSE ds

\* a <= b for digit strings of equal length
DigitsLE(a, b) ==
    \A i \in 1..Len(a) :
        (\A j \in 1..(i - 1) : a[j] = b[j]) => DigitVal(a[i]) <= DigitVal(b[i])

\* the magnitude ds does not exceed the magnitude written max
Fits(ds, max) ==
    LET t == StripZeros(ds)
    IN  Len(t) < Len(max) \/ (Len(t) = Len(max) /\ DigitsLE(t, max))

\* Value of a digit string; magnitudes above I32_MAX are represented by
\* I32_MAX (the calendar rejects every such day, month and year alike).
RECURSIVE DigitsValue(_)
DigitsValue(ds) ==
    IF Len(ds) = 0 THEN 0
    ELSE LET v == DigitsValue(SubSeq(ds, 1, Len(ds) - 1))
             d == DigitVal(ds[Len(ds)])
         IN  IF v > (I32_MAX - d) \div 10 THEN I32_MAX ELSE v * 10 + d

AllDigits(s) == Len(s) > 0 /\ \A i \in 1..Len(s) : s[i] \in Digits

ParseOk(v) == [ok |-> TRUE, val |-> v]
ParseErr == [ok |-> FALSE, val |-> 0]

from_str_u32_signed(s) ==
    LET neg  == Len(s) > 1 /\ s[1] = "-"
        body == IF Len(s) > 1 /\ s[1] \in {"+", "-"} THEN Tail(s) ELSE s
    IN  IF ~AllDigits(body) THEN ParseErr
        ELSE IF ~Fits(body, U32_MAX_DIGITS) THEN ParseErr
        ELSE ParseOk(IF neg THEN 0 - DigitsValue(body) ELSE DigitsValue(body))

\* u32: optional leading '+', then one or more digits, value <= u32::MAX
from_str_u32(s) ==
    LET body == IF Len(s) > 1 /\ s[1] = "+" THEN Tail(s) ELSE s
    IN  IF ~AllDigits(body) THEN ParseErr
        ELSE IF ~Fits(body, U32_MAX_DIGITS) THEN ParseErr
        ELSE ParseOk(DigitsValue(body))

\* i32: optional leading '+' or '-', then one or more digits, in range
from_str_i32(s) ==
    LET neg  == Len(s) > 1 /\ s[1] = "-"
        body == IF Len(s) > 1 /\ s[1] \in {"+", "-"} THEN Tail(s) ELSE s
    IN  IF ~AllDigits(body) THEN ParseErr
        ELSE IF ~Fits(body, IF neg THEN I32_MIN_DIGITS ELSE I32_MAX_DIGITS)
             THEN ParseErr
        ELSE ParseOk(IF neg THEN 0 - DigitsValue(body) ELSE DigitsValue(body))

(***************************************************************************)
(* Calendar (NaiveDate).                                                   *)
(***************************************************************************)
IsLeap(y) == (y % 4 = 0 /\ y % 100 # 0) \/ y % 400 = 0

DaysInMonth(y, m) ==
    IF m = 2 THEN (IF IsLeap(y) THEN 29 ELSE 28)
    ELSE IF m \in {4, 6, 9, 11} THEN 30
    ELSE 31

None == [some |-> FALSE, year |-> 0, month |-> 0, day |-> 0]
Some(y, m, d) == [some |-> TRUE, year |-> y, month |-> m, day |-> d]

from_ymd_opt_clamped(year, month, day) ==
    IF /\ year \in MIN_YEAR..MAX_YEAR
       /\ month \in 1..12
       /\ day >= 1
    THEN Some(year, month,
              IF day > DaysInMonth(year, month) THEN DaysInMonth(year, month)
              ELSE day)
    ELSE None

from_ymd_opt(year, month, day) ==
    IF /\ year \in MIN_YEAR..MAX_YEAR
       /\ month \in 1..12
       /\ day \in 1..DaysInMonth(year, month)
    THEN Some(year, month, day)
    ELSE None

\* the day before d, None before the first representable date
pred_opt(d) ==
    IF d.day > 1 THEN Some(d.year, d.month, d.day - 1)
    ELSE IF d.month > 1
         THEN Some(d.year, d.month - 1, DaysInMonth(d.year, d.month - 1))
    ELSE IF d.year > MIN_YEAR THEN Some(d.year - 1, 12, 31)
    ELSE None

(***************************************************************************)
(* Results.                                                                *)
(***************************************************************************)
NoResult == [kind |-> "None", date |-> <<>>, time |-> <<>>, text |-> <<>>]
Ok(d, t) ==
    [kind |-> "Ok", date |-> <<d.year, d.month, d.day>>, time |-> t,
     text |-> <<>>]
ErrDate(txt) == [kind |-> "Date", date |-> <<>>, time |-> <<>>, text |-> txt]
ErrDatePart(txt) ==
    [kind |-> "DatePart", date |-> <<>>, time |-> <<>>, text |-> txt]
\* Option::unwrap / Result::unwrap on a failure: the call does not return
Panic == [kind |-> "Panic", date |-> <<>>, time |-> <<>>, text |-> <<>>]

\* what a call returns, and which library calls it made on the way
Outcome(res, cs) == [res |-> res, calls |-> cs]

(***************************************************************************)
(* last_day_of_month(year, month): the first day of the next month         *)
(* (month + 1, or January of year + 1 after December), stepped back one    *)
(* day; an InvalidDate-class error when that date cannot be constructed.   *)
(***************************************************************************)
last_day_of_month(year, month) ==
    LET next == IF month = 12 THEN from_ymd_opt(year + 1, 1, 1)
                ELSE from_ymd_opt(year, month + 1, 1)
        prev == IF next.some THEN pred_opt(next) ELSE None
    IN  IF prev.some THEN [ok |-> TRUE, date |-> prev, err |-> NoResult]
        ELSE [ok |-> FALSE, date |-> None,
              err |-> ErrDate(Format(month) \o <<"/">> \o Format(year))]

(***************************************************************************)
(* The parser.                                                             *)
(***************************************************************************)
time_by_date_round_swapped(rnd) ==
    IF rnd = "Ceil" THEN <<0, 0, 0>> ELSE <<23, 59, 59>>

time_by_date_round(rnd) ==
    IF rnd = "Ceil" THEN <<23, 59, 59>> ELSE <<0, 0, 0>>

handle_full_date_year_first(day_str, month_str, year_str, rnd) ==
    LET time  == time_by_date_round(rnd)
        day   == from_str_u32(day_str)
        month == from_str_u32(month_str)
        year  == from_str_i32(year_str)
    IN  IF day.ok /\ month.ok /\ year.ok
        THEN LET d == from_ymd_opt(year.val, month.val, day.val)
             IN  IF d.some
                 THEN Outcome(Ok(d, time), {"from_str", "from_ymd_opt"})
                 ELSE Outcome(ErrDate(Join(<<day_str, month_str, year_str>>)),
                              {"from_str", "from_ymd_opt"})
        ELSE IF ~year.ok THEN Outcome(ErrDatePart(year_str), {"from_str"})
        ELSE IF ~month.ok THEN Outcome(ErrDatePart(month_str), {"from_str"})
        ELSE Outcome(ErrDatePart(day_str), {"from_str"})

handle_full_date(day_str, month_str, year_str, rnd) ==
    LET time  == time_by_date_round(rnd)
        day   == from_str_u32(day_str)
        month == from_str_u32(month_str)
        year  == from_str_i32(year_str)
    IN  IF day.ok /\ month.ok /\ year.ok
        THEN LET d == from_ymd_opt(year.val, month.val, day.val)
             IN  IF d.some
                 THEN Outcome(Ok(d, time), {"from_str", "from_ymd_opt"})
                 ELSE Outcome(ErrDate(Join(<<day_str, month_str, year_str>>)),
                              {"from_str", "from_ymd_opt"})
        \* (Err(_), _, _), then (_, Err(_), _), then (_, _, Err(_))
        ELSE IF ~day.ok THEN Outcome(ErrDatePart(day_str), {"from_str"})
        ELSE IF ~month.ok THEN Outcome(ErrDatePart(month_str), {"from_str"})
        ELSE Outcome(ErrDatePart(year_str), {"from_str"})

handle_month_year(month_str, year_str, rnd) ==
    LET time  == time_by_date_round(rnd)
        month == from_str_u32(month_str)
        year  == from_str_i32(year_str)
    IN  IF year.ok /\ month.ok
        THEN LET last == last_day_of_month(year.val, month.val)
             IN  IF rnd = "Ceil" /\ ~last.ok
                 THEN Outcome(last.err, {"from_str", "last_day_of_month"})
                 ELSE LET day == IF rnd = "Ceil" THEN last.date.day ELSE 1
                          cs  == IF rnd = "Ceil"
                                 THEN {"from_str", "last_day_of_month",
                                       "from_ymd_opt"}
                                 ELSE {"from_str", "from_ymd_opt"}
                          d   == from_ymd_opt(year.val, month.val, day)
                      IN  IF d.some THEN Outcome(Ok(d, time), cs)
                          ELSE Outcome(ErrDate(Format(month.val) \o <<"/">>
                                               \o Format(year.val)), cs)
        \* the scrutinee is (year, month): the pattern (Err(_), _) is a
        \* failed year, and its arm carries month_str
        ELSE IF ~year.ok THEN Outcome(ErrDatePart(month_str), {"from_str"})
        ELSE Outcome(ErrDatePart(year_str), {"from_str"})

handle_year(year_str, rnd) ==
    LET time == time_by_date_round(rnd)
        year == from_str_i32(year_str)
    IN  IF year.ok
        THEN LET month == IF rnd = "Ceil" THEN 12 ELSE 1
                 last  == last_day_of_month(year.val, month)
             IN  IF rnd = "Ceil" /\ ~last.ok
                 THEN \* last_day_of_month(year, month).unwrap()
                      Outcome(Panic, {"from_str", "last_day_of_month"})
                 ELSE LET day == IF rnd = "Ceil" THEN last.date.day ELSE 1
                          cs  == IF rnd = "Ceil"
                                 THEN {"from_str", "last_day_of_month",
                                       "from_ymd_opt"}
                                 ELSE {"from_str", "from_ymd_opt"}
                          d   == from_ymd_opt(year.val, month, day)
                      IN  IF d.some THEN Outcome(Ok(d, time), cs)
                          ELSE Outcome(ErrDate(Join(<<Format(day),
                                                      Format(month),
                                                      year_str>>)), cs)
        ELSE Outcome(ErrDatePart(year_str), {"from_str"})

\* match date_parts.len()
dispatch_at_least_three(n) ==
    IF n >= 3 THEN "handle_full_date"
    ELSE IF n = 2 THEN "handle_month_year"
    ELSE IF n = 1 THEN "handle_year"
    ELSE "other"

dispatch(n) ==
    IF n = 3 THEN "handle_full_date"
    ELSE IF n = 2 THEN "handle_month_year"
    ELSE IF n = 1 THEN "handle_year"
    ELSE "other"

\* the whole call, as a function of its arguments
parse_date_str(s, rnd) ==
    LET parts == Split(s)
        arm   == dispatch(Len(parts))
    IN  IF arm = "handle_full_date"
        THEN handle_full_date(parts[1], parts[2], parts[3], rnd)
        ELSE IF arm = "handle_month_year"
        THEN handle_month_year(parts[1], parts[2], rnd)
        ELSE IF arm = "handle_year" THEN handle_year(parts[1], rnd)
        ELSE Outcome(ErrDate(s), {})

(***************************************************************************)
(* Inputs: the token texts the callers' strings are built from.            *)
(***************************************************************************)
DayNums == {0, 1} \cup (28..MaxDay)
MonthNums == 0..MaxMonth
YearNums == {MIN_YEAR - 1, MIN_YEAR, -1, 0, 1900, 2000, 2023, 2024,
             MAX_YEAR, MAX_YEAR + 1}

DayTokens ==
    {Format(n) : n \in DayNums} \cup
    {<<>>, <<"a">>, <<" ", "1">>, <<"-", "1">>, <<"+", "5">>,
     <<"4", "2", "9", "4", "9", "6", "7", "2", "9", "6">>}

MonthTokens ==
    {Format(n) : n \in MonthNums} \cup
    {<<>>, <<"a">>, <<"-", "1">>, <<"0", "2">>,
     <<"4", "2", "9", "4", "9", "6", "7", "2", "9", "6">>}

YearTokens ==
    {Format(n) : n \in YearNums} \cup
    {<<>>, <<" ">>, <<"a">>, <<"+", "2", "0", "2", "4">>,
     <<"2", "1", "4", "7", "4", "8", "3", "6", "4", "8">>}

ExtraTokens == {<<>>, <<"a">>, <<"1">>}

RECURSIVE Tuples(_, _)
Tuples(S, n) ==
    IF n = 0 THEN {<<>>}
    ELSE {<<x>> \o t : x \in S, t \in Tuples(S, n - 1)}

Inputs ==
    YearTokens
    \cup {Join(<<m, y>>) : m \in MonthTokens, y \in YearTokens}
    \cup {Join(<<d, m, y>>) : d \in DayTokens, m \in MonthTokens,
                              y \in YearTokens}
    \cup UNION {{Join(t) : t \in Tuples(ExtraTokens, n)} : n \in 4..MaxParts}

(***************************************************************************)
(* The state machine: one call of parse_date_str.                          *)
(***************************************************************************)
Init ==
    /\ date_str \in Inputs
    /\ round \in DateRound
    /\ pc = "parse_date_str"
    /\ date_parts = <<>>
    /\ result = NoResult
    /\ calls = {}

ParseDateStr ==
    /\ pc = "parse_date_str"
    /\ date_parts' = Split(date_str)
    /\ LET arm == dispatch(Len(date_parts'))
       IN  IF arm = "other"
           THEN /\ result' = ErrDate(date_str)
                /\ pc' = "done"
           ELSE /\ result' = result
                /\ pc' = arm
    /\ UNCHANGED <<date_str, round, calls>>

HandleFullDate ==
    /\ pc = "handle_full_date"
    /\ LET o == handle_full_date(date_parts[1], date_parts[2], date_parts[3],
                                 round)
       IN  /\ result' = o.res
           /\ calls' = o.calls
    /\ pc' = "done"
    /\ UNCHANGED <<date_str, round, date_parts>>

HandleMonthYear ==
    /\ pc = "handle_month_year"
    /\ LET o == handle_month_year(date_parts[1], date_parts[2], round)
       IN  /\ result' = o.res
           /\ calls' = o.calls
    /\ pc' = "done"
    /\ UNCHANGED <<date_str, round, date_parts>>

HandleYear ==
    /\ pc = "handle_year"
    /\ LET o == handle_year(date_parts[1], round)
       IN  /\ result' = o.res
           /\ calls' = o.calls
    /\ pc' = "done"
    /\ UNCHANGED <<date_str, round, date_parts>>

Next == ParseDateStr \/ HandleFullDate \/ HandleMonthYear \/ HandleYear

Spec == Init /\ [][Next]_vars

(***************************************************************************)
(* Vocabulary of the properties.                                           *)
(***************************************************************************)
Done == pc = "done"

\* tokens of the input, counted on the text: one more than its slashes
TokenCount == Cardinality({i \in 1..Len(date_str) : date_str[i] = "/"}) + 1

OtherRound == IF round = "Ceil" THEN "Floor" ELSE "Ceil"

\* the Gregorian month lengths, stated on their own
GregorianLastDay(y, m) ==
    CASE m \in {1, 3, 5, 7, 8, 10, 12} -> 31
      [] m \in {4, 6, 9, 11} -> 30
      [] OTHER -> IF (y % 4 = 0 /\ y % 100 # 0) \/ y % 400 = 0 THEN 29
                  ELSE 28

ValidYear(y) == y >= MIN_YEAR /\ y <= MAX_YEAR

RealDate(y, m, d) ==
    /\ ValidYear(y)
    /\ m >= 1 /\ m <= 12
    /\ d >= 1 /\ d <= GregorianLastDay(y, m)

Timestamp(y, m, d, t) ==
    [kind |-> "Ok", date |-> <<y, m, d>>, time |-> t, text |-> <<>>]

RoundTime == IF round = "Floor" THEN <<0, 0, 0>> ELSE <<23, 59, 59>>

\* seconds since midnight, and a total order on timestamps
Seconds(t) == t[1] * 3600 + t[2] * 60 + t[3]

NotLater(a, b) ==
    \/ a.date[1] < b.date[1]
    \/ a.date[1] = b.date[1] /\ a.date[2] < b.date[2]
    \/ a.date[1] = b.date[1] /\ a.date[2] = b.date[2] /\ a.date[3] < b.date[3]
    \/ a.date = b.date /\ Seconds(a.time) <= Seconds(b.time)

\* an integer literal as written: optional sign, then digits only
LiteralBody(s) == IF Len(s) > 1 /\ s[1] \in {"+", "-"} THEN Tail(s) ELSE s

IntLiteral(s) ==
    /\ Len(LiteralBody(s)) > 0
    /\ \A i \in 1..Len(LiteralBody(s)) : LiteralBody(s)[i] \in Digits

Negative(s) == IntLiteral(s) /\ s[1] = "-"

LiteralValue(s) ==
    IF Negative(s) THEN 0 - DigitsValue(LiteralBody(s))
    ELSE DigitsValue(LiteralBody(s))

\* the literal does not fit u32 (day, month) or i32 (year)
NotU32(s) == Negative(s) \/ ~Fits(LiteralBody(s), U32_MAX_DIGITS)

NotI32(s) ==
    ~Fits(LiteralBody(s),
          IF Negative(s) THEN I32_MIN_DIGITS ELSE I32_MAX_DIGITS)

(***************************************************************************)
(* C1: for every input and both policies parse_date_str returns a value,   *)
(* a timestamp or a ParseDateStrError; it never panics.                    *)
(***************************************************************************)
C1_NeverPanics == Done => result.kind \in {"Ok", "Date", "DatePart"}

(***************************************************************************)
(* C2: for a 2-token input M/Y with M a month in 1..12 and Y a valid year, *)
(* Floor gives day 1 of M/Y at 00:00:00 and Ceil the Gregorian last day of *)
(* M/Y at 23:59:59.                                                        *)
(***************************************************************************)
C2_MonthYearResolved ==
    (Done /\ TokenCount = 2) =>
        LET month == from_str_u32(date_parts[1])
            year  == from_str_i32(date_parts[2])
        IN  (month.ok /\ year.ok /\ month.val \in 1..12 /\ ValidYear(year.val))
            => result = Timestamp(year.val, month.val,
                                  IF round = "Floor" THEN 1
                                  ELSE GregorianLastDay(year.val, month.val),
                                  RoundTime)

(***************************************************************************)
(* C3: for a 1-token input Y with Y a valid year, Floor gives January 1 of *)
(* Y at 00:00:00 and Ceil December 31 of Y at 23:59:59.                    *)
(***************************************************************************)
C3_YearResolved ==
    (Done /\ TokenCount = 1) =>
        LET year == from_str_i32(date_parts[1])
        IN  (year.ok /\ ValidYear(year.val))
            => result = IF round = "Floor"
                        THEN Timestamp(year.val, 1, 1, <<0, 0, 0>>)
                        ELSE Timestamp(year.val, 12, 31, <<23, 59, 59>>)

(***************************************************************************)
(* C4: a 3-token input D/M/Y whose tokens parse and form a real calendar   *)
(* date yields exactly that date, at 00:00:00 under Floor and 23:59:59     *)
(* under Ceil; the results of the two policies differ only in the time.    *)
(***************************************************************************)
C4_FullDateKept ==
    (Done /\ TokenCount = 3) =>
        LET day   == from_str_u32(date_parts[1])
            month == from_str_u32(date_parts[2])
            year  == from_str_i32(date_parts[3])
            other == parse_date_str(date_str, OtherRound).res
        IN  (/\ day.ok /\ month.ok /\ year.ok
             /\ RealDate(year.val, month.val, day.val))
            => /\ result = Timestamp(year.val, month.val, day.val, RoundTime)
               /\ other.kind = "Ok"
               /\ other.date = result.date
               /\ other.time # result.time

C4_Witness ==
    /\ Done
    /\ TokenCount = 3
    /\ round = "Ceil"
    /\ result = Timestamp(2024, 2, 29, <<23, 59, 59>>)

(***************************************************************************)
(* C5: a 3-token input whose tokens all parse but which is no real         *)
(* calendar date fails under either policy with Date, carrying the day,    *)
(* month and year texts rejoined with '/'; the day is never clamped.       *)
(***************************************************************************)
C5_InvalidDateRejected ==
    (Done /\ TokenCount = 3) =>
        LET day   == from_str_u32(date_parts[1])
            month == from_str_u32(date_parts[2])
            year  == from_str_i32(date_parts[3])
        IN  (/\ day.ok /\ month.ok /\ year.ok
             /\ ~RealDate(year.val, month.val, day.val))
            => result = ErrDate(date_parts[1] \o <<"/">> \o date_parts[2]
                                \o <<"/">> \o date_parts[3])

C5_Witness ==
    /\ Done
    /\ date_parts = <<Format(29), Format(2), Format(2023)>>
    /\ result.kind = "Date"

(***************************************************************************)
(* C6: in the 2-token case a token that fails to parse gives DatePart      *)
(* carrying the failing token: the month token when the month fails, the   *)
(* year token when only the year fails.                                    *)
(***************************************************************************)
C6_MonthYearFailingToken ==
    (Done /\ TokenCount = 2) =>
        LET month == from_str_u32(date_parts[1])
            year  == from_str_i32(date_parts[2])
        IN  (~month.ok \/ ~year.ok)
            => result = ErrDatePart(IF ~month.ok THEN date_parts[1]
                                    ELSE date_parts[2])

(***************************************************************************)
(* C7: in the 3-token case the result is DatePart exactly when a token     *)
(* fails to parse; it carries the first failing token in the order day,    *)
(* month, year, and no calendar date is constructed.                       *)
(***************************************************************************)
C7_FirstFailingToken ==
    (Done /\ TokenCount = 3) =>
        LET day   == from_str_u32(date_parts[1])
            month == from_str_u32(date_parts[2])
            year  == from_str_i32(date_parts[3])
            first == IF ~day.ok THEN date_parts[1]
                     ELSE IF ~month.ok THEN date_parts[2]
                     ELSE date_parts[3]
        IN  /\ (result.kind = "DatePart") <=> (~day.ok \/ ~month.ok \/ ~year.ok)
            /\ (~day.ok \/ ~month.ok \/ ~year.ok)
               => /\ result = ErrDatePart(first)
                  /\ "from_ymd_opt" \notin calls

C7_Witness ==
    /\ Done
    /\ TokenCount = 3
    /\ from_str_u32(date_parts[1]).ok
    /\ ~from_str_u32(date_parts[2]).ok
    /\ ~from_str_i32(date_parts[3]).ok
    /\ result = ErrDatePart(date_parts[2])

(***************************************************************************)
(* C8: dispatch is on the token count alone: 4 or more tokens fail with    *)
(* Date carrying the input verbatim and no token is parsed; 1, 2 or 3      *)
(* tokens never take that branch; the empty string is one empty token and  *)
(* fails as a malformed year token.                                        *)
(***************************************************************************)
C8_ArityDispatch ==
    Done =>
        /\ TokenCount >= 4 => (result = ErrDate(date_str) /\ calls = {})
        /\ TokenCount <= 3 => "from_str" \in calls
        /\ date_str = <<>> => result = ErrDatePart(<<>>)

C8_Witness ==
    /\ Done
    /\ TokenCount = 4
    /\ result = ErrDate(date_str)
    /\ \E i \in 1..4 : ~from_str_u32(date_parts[i]).ok

(***************************************************************************)
(* C9 as stated: every 3-token input of well-formed integer literals with  *)
(* an out-of-range value (month 13, month 0, day 0, a negative day or      *)
(* month, a value too large for the machine integer) fails with Date and   *)
(* never with DatePart.                                                    *)
(***************************************************************************)
C9_OutOfRangeIsInvalidDate ==
    (Done /\ TokenCount = 3 /\ \A i \in 1..3 : IntLiteral(date_parts[i])) =>
        LET tooBig == NotU32(date_parts[1]) \/ NotU32(date_parts[2])
                      \/ NotI32(date_parts[3])
        IN  /\ result.kind # "DatePart"
            /\ (tooBig \/ ~RealDate(LiteralValue(date_parts[3]),
                                    LiteralValue(date_parts[2]),
                                    LiteralValue(date_parts[1])))
               => result.kind = "Date"

(***************************************************************************)
(* C9 as amended: day and month are parsed as unsigned 32-bit integers and *)
(* the year as a signed 32-bit integer.  A 3-token input of well-formed    *)
(* integer literals fails with DatePart, carrying the first such token,    *)
(* when a day or month is negative or a token is too large for its machine *)
(* integer; otherwise an out-of-range value (month 13, month 0, day 0)     *)
(* fails with Date, like 30 February.                                      *)
(***************************************************************************)
C9_OutOfRangeSplit ==
    (Done /\ TokenCount = 3 /\ \A i \in 1..3 : IntLiteral(date_parts[i])) =>
        IF NotU32(date_parts[1]) THEN result = ErrDatePart(date_parts[1])
        ELSE IF NotU32(date_parts[2]) THEN result = ErrDatePart(date_parts[2])
        ELSE IF NotI32(date_parts[3]) THEN result = ErrDatePart(date_parts[3])
        ELSE ~RealDate(LiteralValue(date_parts[3]),
                       LiteralValue(date_parts[2]),
                       LiteralValue(date_parts[1]))
             => result.kind = "Date"

C9_Witness ==
    /\ Done
    /\ date_parts = <<Format(-1), Format(13), Format(2024)>>
    /\ result = ErrDatePart(Format(-1))

(***************************************************************************)
(* C10: for every input, Floor succeeds exactly when Ceil succeeds; when   *)
(* both succeed the Floor timestamp is not later than the Ceil timestamp,  *)
(* and when both fail they fail with the same error kind.                  *)
(***************************************************************************)
C10_FloorCeilAgree ==
    Done =>
        LET other == parse_date_str(date_str, OtherRound).res
            floor == IF round = "Floor" THEN result ELSE other
            ceil  == IF round = "Ceil" THEN result ELSE other
        IN  /\ (floor.kind = "Ok") <=> (ceil.kind = "Ok")
            /\ (floor.kind = "Ok" /\ ceil.kind = "Ok") => NotLater(floor, ceil)
            /\ (floor.kind # "Ok" /\ ceil.kind # "Ok") => floor.kind = ceil.kind

====
